---- MODULE Spec2Model ----
(***************************************************************************)
(* Model of the two Ansible modules of cloud/amazon:                       *)
(*   ec2_elb_tag.py  - lists, adds and removes the tags of an ELB;         *)
(*   boto3_wait.py   - blocks on a boto3 waiter.                           *)
(* Each module is a sequential main(); its position is pc (resp. wpc).     *)
(* The AWS side (the ELB's tags, the waiter's condition) is the            *)
(* environment: every API call may succeed or raise.                       *)
(***************************************************************************)
EXTENDS Integers, Sequences, FiniteSets, TLC

(* ---------------------------- bounds ----------------------------------- *)
NumKeys == 2            \* number of distinct tag keys in play
MaxRuns == 2            \* consecutive invocations of ec2_elb_tag on the same ELB
MaxAttemptsBound == 3   \* largest max_attempts a caller passes to boto3_wait
DefaultMaxAttempts == 2 \* the waiter's own max_attempts before any override

KeyPool == <<"env", "tier", "port", "Name">>
Keys == {KeyPool[i] : i \in 1..NumKeys}
\* tag values as AWS stores them: always strings
StrVals == {"prod", "80"}
\* values a playbook can give: strings, or non-string scalars such as 80
TagValues ==
    {[t |-> "str", s |-> v, n |-> 0] : v \in StrVals} \cup {[t |-> "int", s |-> "", n |-> 80]}

Digits == <<"0", "1", "2", "3", "4", "5", "6", "7", "8", "9">>
RECURSIVE IntStr(_)
IntStr(n) == IF n < 10 THEN Digits[n + 1] ELSE IntStr(n \div 10) \o Digits[(n % 10) + 1]

\* Python's str() on a tag value
str(v) == IF v.t = "int" THEN IntStr(v.n) ELSE v.s

EmptyMap == [k \in {} |-> ""]
\* all dicts with keys in K and values in V
Dicts(K, V) == UNION {[D -> V] : D \in SUBSET K}

\* a Python value held by actual_tags: a dict (map) or a list of records (items)
PyDict(m) == [repr |-> "dict", map |-> m, items |-> {}]
PyList(l) == [repr |-> "list", map |-> EmptyMap, items |-> l]

VARIABLES
    provider,      \* the tags of the ELB, as AWS holds them
    state,         \* module.params['state']
    tags,          \* module.params['tags']: [given, map]; given = FALSE is None
    check_mode,    \* module.check_mode
    pc,            \* position in main()
    actual_tags,   \* local variable actual_tags
    changed,       \* local variable changed
    calls,         \* API calls of the current run: [describe, add, remove]
    addPayload,    \* Tags argument of the last add_tags call of the run
    removePayload, \* keys of the Tags argument of the last remove_tags call
    before,        \* the ELB's tags when the current run started
    log,           \* one record per finished run
    wpc,           \* position in boto3_wait's main()
    until,         \* module.params['until']
    delay,         \* module.params['delay']: [given, val]
    max_attempts,  \* module.params['max_attempts']: [given, val]
    config,        \* waiter.config: [delay, max_attempts]
    succeedsAt,    \* the check on which the awaited condition holds (0: never)
    rejectsAt,     \* the check on which AWS answers a terminal failure (0: never)
    attempts,      \* condition checks issued so far
    waiterCalls,   \* [get_waiter, wait] calls issued
    outcome,       \* how waiter.wait ended
    wreport        \* what boto3_wait reported

tagVars == <<provider, state, tags, check_mode, pc, actual_tags, changed, calls,
             addPayload, removePayload, before, log>>
waitVars == <<wpc, until, delay, max_attempts, config, succeedsAt, rejectsAt,
              attempts, waiterCalls, outcome, wreport>>
vars == <<tagVars, waitVars>>

NoCalls == [describe |-> 0, add |-> 0, remove |-> 0]
NotGiven == [given |-> FALSE, val |-> 0]
NoWaiterCalls == [get_waiter |-> 0, wait |-> 0]
NoWaitReport == [kind |-> "none", changed |-> FALSE, msg |-> ""]

(* ------------------------- ec2_elb_tag.py ------------------------------ *)

\* the dict comprehension of get_lb_tags over the describe_tags response
DescribedTags(p) == PyDict([k \in DOMAIN p |-> p[k]])

\* AWS AddTags: sets each given key, overwriting an existing value
ProviderAddTags(p, payload) ==
    [k \in DOMAIN p \cup {e.Key : e \in payload} |->
        IF \E e \in payload : e.Key = k
        THEN (CHOOSE e \in payload : e.Key = k).Value
        ELSE p[k]]

\* AWS RemoveTags: removes the given keys
ProviderRemoveTags(p, ks) == [k \in DOMAIN p \ ks |-> p[k]]

\* every desired tag is sent again, matching or not
TagKeysToAddAll(tgs, actual) == DOMAIN tgs
\* the desired value is compared as given: an int never equals a string
TagKeysToAddNoStr(tgs, actual) ==
    {key \in DOMAIN tgs :
        key \notin DOMAIN actual \/ tgs[key].t = "int" \/ actual[key] # tgs[key].s}
\* line 140
TagKeysToAdd(tgs, actual) ==
    {key \in DOMAIN tgs : key \notin DOMAIN actual \/ actual[key] # str(tgs[key])}

\* line 142
TagsToAdd(tgs, ks) == {[Key |-> key, Value |-> str(tgs[key])] : key \in ks}

\* key-only deletion: the value is not compared
TagKeysToRemoveKeyOnly(tgs, actual) == {key \in DOMAIN actual : key \in DOMAIN tgs}
\* line 151
TagKeysToRemove(tgs, actual) ==
    {key \in DOMAIN actual : key \in DOMAIN tgs /\ actual[key] = str(tgs[key])}

\* dict.update(list of {'Key':..,'Value':..}): each element is unpacked as a
\* (k, v) pair by iterating the element's two keys, in the element's own
\* iteration order, so the entry written is 'Key'->'Value' or 'Value'->'Key'.
UpdatedDicts(actual, l) ==
    IF l = {} THEN {actual}
    ELSE { [k \in DOMAIN actual \cup {pr[1]} |-> IF k = pr[1] THEN pr[2] ELSE actual[k]] :
             pr \in {<<"Key", "Value">>, <<"Value", "Key">>} }

\* the list comprehension of the absent branch under check mode
RemainingRecords(actual, ks) ==
    {[Key |-> key, Value |-> actual[key]] : key \in DOMAIN actual \ ks}

\* module.check_mode, as read at lines 143 and 153
CheckModeIgnored == FALSE
CheckMode == check_mode

\* fail_json(msg=...) of get_lb_tags; an exception nothing catches ends the
\* process with a traceback and no report of the module's own
FailJson == [kind |-> "fail", changed |-> FALSE, tags |-> PyDict(EmptyMap)]
Traceback == [kind |-> "traceback", changed |-> FALSE, tags |-> PyDict(EmptyMap)]

\* the run ends with report rep: by exit_json, by fail_json or by an uncaught exception
Finish(rep, err, prov, cls, addP, remP) ==
    /\ pc' = "done"
    /\ log' = Append(log, [state |-> state, check_mode |-> check_mode, before |-> before,
                           after |-> prov, report |-> rep, error |-> err, calls |-> cls,
                           addPayload |-> addP, removePayload |-> remP])

\* get_lb_tags, called at line 137 and again after a real add_tags/remove_tags
\* (lines 145, 155, followed there by changed = True)
GetLbTags ==
    /\ pc \in {"fetch", "refetch"}
    /\ LET cls == [calls EXCEPT !.describe = @ + 1]
       IN  /\ calls' = cls
           /\ \E ok \in BOOLEAN :
                IF ok
                THEN /\ actual_tags' = DescribedTags(provider)
                     /\ changed' = IF pc = "refetch" THEN TRUE ELSE changed
                     /\ pc' = IF pc = "fetch" THEN "branch" ELSE "exit"
                     /\ UNCHANGED log
                ELSE /\ Finish(FailJson, "describe_tags", provider, cls, addPayload, removePayload)
                     /\ UNCHANGED <<actual_tags, changed>>
    /\ UNCHANGED <<provider, state, tags, check_mode, addPayload, removePayload, before>>

\* lines 139-148
PresentBranch ==
    /\ IF ~tags.given
       THEN /\ Finish(Traceback, "TypeError", provider, calls, addPayload, removePayload)
            /\ UNCHANGED <<provider, actual_tags, changed, calls, addPayload>>
       ELSE LET tag_keys_to_add == TagKeysToAdd(tags.map, actual_tags.map)
                tags_to_add == TagsToAdd(tags.map, tag_keys_to_add)
                cls == [calls EXCEPT !.add = @ + 1]
            IN  IF tag_keys_to_add = {}
                THEN /\ pc' = "exit"
                     /\ UNCHANGED <<provider, actual_tags, changed, calls, addPayload, log>>
                ELSE IF ~CheckMode
                THEN /\ calls' = cls
                     /\ addPayload' = tags_to_add
                     /\ \E ok \in BOOLEAN :
                          IF ok
                          THEN /\ provider' = ProviderAddTags(provider, tags_to_add)
                               /\ pc' = "refetch"
                               /\ UNCHANGED log
                          ELSE /\ UNCHANGED provider
                               /\ Finish(Traceback, "add_tags", provider, cls, tags_to_add, removePayload)
                     /\ UNCHANGED <<actual_tags, changed>>
                ELSE /\ \E d \in UpdatedDicts(actual_tags.map, tags_to_add) :
                          actual_tags' = PyDict(d)
                     /\ changed' = TRUE
                     /\ pc' = "exit"
                     /\ UNCHANGED <<provider, calls, addPayload, log>>
    /\ UNCHANGED <<state, tags, check_mode, removePayload, before>>

Present == pc = "branch" /\ state = "present" /\ PresentBranch

\* lines 150-158
Absent ==
    /\ pc = "branch" /\ state = "absent"
    /\ IF ~tags.given /\ DOMAIN actual_tags.map # {}
       THEN /\ Finish(Traceback, "TypeError", provider, calls, addPayload, removePayload)
            /\ UNCHANGED <<provider, actual_tags, changed, calls, removePayload>>
       ELSE LET tag_keys_to_remove ==
                    IF tags.given THEN TagKeysToRemove(tags.map, actual_tags.map) ELSE {}
                cls == [calls EXCEPT !.remove = @ + 1]
            IN  IF tag_keys_to_remove = {}
                THEN /\ pc' = "exit"
                     /\ UNCHANGED <<provider, actual_tags, changed, calls, removePayload, log>>
                ELSE IF ~CheckMode
                THEN /\ calls' = cls
                     /\ removePayload' = tag_keys_to_remove
                     /\ \E ok \in BOOLEAN :
                          IF ok
                          THEN /\ provider' = ProviderRemoveTags(provider, tag_keys_to_remove)
                               /\ pc' = "refetch"
                               /\ UNCHANGED log
                          ELSE /\ UNCHANGED provider
                               /\ Finish(Traceback, "remove_tags", provider, cls, addPayload, tag_keys_to_remove)
                     /\ UNCHANGED <<actual_tags, changed>>
                ELSE /\ actual_tags' = PyList(RemainingRecords(actual_tags.map, tag_keys_to_remove))
                     /\ changed' = TRUE
                     /\ pc' = "exit"
                     /\ UNCHANGED <<provider, calls, removePayload, log>>
    /\ UNCHANGED <<state, tags, check_mode, addPayload, before>>

\* a list request that falls into the present branch
ListFallsIntoPresent == pc = "branch" /\ state = "list" /\ PresentBranch

\* state == 'list': neither branch of lines 139-158 is taken
List ==
    /\ pc = "branch" /\ state = "list"
    /\ pc' = "exit"
    /\ UNCHANGED <<provider, state, tags, check_mode, actual_tags, changed, calls,
                   addPayload, removePayload, before, log>>

\* line 160
ExitJson ==
    /\ pc = "exit"
    /\ Finish([kind |-> "exit", changed |-> changed, tags |-> actual_tags], "none",
              provider, calls, addPayload, removePayload)
    /\ UNCHANGED <<provider, state, tags, check_mode, actual_tags, changed, calls,
                   addPayload, removePayload, before>>

\* the same task is run again on the same ELB (same state and tags), in check
\* mode or not, after a run that exited normally; nobody else writes the tags
Rerun ==
    /\ pc = "done" /\ Len(log) < MaxRuns
    /\ log[Len(log)].report.kind = "exit"
    /\ \E cm \in BOOLEAN : check_mode' = cm
    /\ pc' = "fetch"
    /\ actual_tags' = PyDict(EmptyMap)
    /\ changed' = FALSE
    /\ calls' = NoCalls
    /\ addPayload' = {}
    /\ removePayload' = {}
    /\ before' = provider
    /\ UNCHANGED <<provider, state, tags, log>>

InitTag ==
    /\ provider \in Dicts(Keys, StrVals)
    /\ state \in {"present", "absent", "list"}
    /\ tags \in {[given |-> FALSE, map |-> EmptyMap]}
                  \cup {[given |-> TRUE, map |-> m] : m \in Dicts(Keys, TagValues)}
    /\ check_mode \in BOOLEAN
    /\ pc = "fetch"
    /\ actual_tags = PyDict(EmptyMap)
    /\ changed = FALSE
    /\ calls = NoCalls
    /\ addPayload = {}
    /\ removePayload = {}
    /\ before = provider
    /\ log = <<>>

IdleWait ==
    /\ wpc = "idle"
    /\ until = ""
    /\ delay = NotGiven
    /\ max_attempts = NotGiven
    /\ config = [delay |-> 0, max_attempts |-> 0]
    /\ succeedsAt = 0
    /\ rejectsAt = 0
    /\ attempts = 0
    /\ waiterCalls = NoWaiterCalls
    /\ outcome = "none"
    /\ wreport = NoWaitReport

Init == InitTag /\ IdleWait

Next ==
    \/ (GetLbTags /\ UNCHANGED waitVars)
    \/ (Present /\ UNCHANGED waitVars)
    \/ (Absent /\ UNCHANGED waitVars)
    \/ (List /\ UNCHANGED waitVars)
    \/ (ExitJson /\ UNCHANGED waitVars)
    \/ (Rerun /\ UNCHANGED waitVars)

Spec == Init /\ [][Next]_vars

(* ------------------- properties of ec2_elb_tag.py ---------------------- *)

Runs == 1..Len(log)
Diffing == state \in {"present", "absent"} /\ tags.given

\* the overlay of a set of (key, str(value)) pairs on a mapping
Overlay(m, d) ==
    [k \in DOMAIN m \cup DOMAIN d |-> IF k \in DOMAIN d THEN str(d[k]) ELSE m[k]]
Without(m, ks) == [k \in DOMAIN m \ ks |-> m[k]]

\* toAdd and toRemove of a request, as keys, against the mapping b
WantedAdds(b) ==
    {k \in DOMAIN tags.map : ~(k \in DOMAIN b /\ b[k] = str(tags.map[k]))}
WantedRemoves(b) ==
    {k \in DOMAIN b : k \in DOMAIN tags.map /\ b[k] = str(tags.map[k])}

\* C1: a Present dry run followed by a Present real run on the same starting
\* tags report the same resulting tags, namely the starting mapping overlaid
\* with (k, str(desired[k])) for the keys of toAdd.
C1_DryRunPresentEqualsReal ==
    \A i \in Runs : \A j \in Runs :
        ( /\ state = "present" /\ tags.given /\ j = i + 1
          /\ log[i].check_mode /\ ~log[j].check_mode
          /\ log[i].report.kind = "exit" /\ log[j].report.kind = "exit"
          /\ log[i].before = log[j].before )
        => /\ log[i].report.tags = log[j].report.tags
           /\ log[i].report.tags = PyDict(Overlay(log[i].before,
                  [k \in WantedAdds(log[i].before) |-> tags.map[k]]))

\* C2: an Absent dry run with a non-empty toRemove reports the same TagSet,
\* a mapping equal to the starting one without the toRemove keys, as the real
\* run does after remove_tags and the re-fetch.
C2_DryRunAbsentEqualsReal ==
    \A i \in Runs : \A j \in Runs :
        ( /\ state = "absent" /\ tags.given /\ j = i + 1
          /\ log[i].check_mode /\ ~log[j].check_mode
          /\ log[i].report.kind = "exit" /\ log[j].report.kind = "exit"
          /\ log[i].before = log[j].before
          /\ WantedRemoves(log[i].before) # {} )
        => /\ log[i].report.tags.repr = "dict"
           /\ log[i].report.tags = log[j].report.tags
           /\ log[i].report.tags =
                  PyDict(Without(log[i].before, WantedRemoves(log[i].before)))

\* C3: two real runs in a row of the same Present or Absent request: the first
\* reports changed exactly when its diff is non-empty, the second reports
\* changed = false and calls neither add_tags nor remove_tags.
C3_Idempotent ==
    /\ \A i \in Runs :
          (Diffing /\ ~log[i].check_mode /\ log[i].report.kind = "exit")
          => log[i].report.changed =
                 (IF state = "present" THEN WantedAdds(log[i].before) # {}
                                       ELSE WantedRemoves(log[i].before) # {})
    /\ \A j \in Runs :
          (Diffing /\ j > 1 /\ ~log[j - 1].check_mode /\ ~log[j].check_mode)
          => /\ log[j].calls.add = 0 /\ log[j].calls.remove = 0
             /\ log[j].report.kind = "exit" => ~log[j].report.changed
    /\ (Diffing /\ Len(log) >= 1 /\ pc # "done" /\ ~log[Len(log)].check_mode /\ ~check_mode)
          => calls.add = 0 /\ calls.remove = 0 /\ ~changed

C3_Witness ==
    /\ Len(log) = 2 /\ state = "present" /\ tags.given
    /\ ~log[1].check_mode /\ ~log[2].check_mode
    /\ log[1].report.changed /\ log[1].calls.add = 1
    /\ \E k \in DOMAIN tags.map : tags.map[k].t = "int"
    /\ log[2].report.kind = "exit" /\ ~log[2].report.changed

\* C4: in Absent mode remove_tags gets exactly the keys whose actual value is
\* the string form of the desired one; every other tag stays; with no such
\* key there is no remove_tags call, changed = false and the tags are
\* returned as fetched.
C4_ValueScopedDeletion ==
    \A i \in Runs :
        (state = "absent" /\ tags.given /\ ~log[i].check_mode)
        => LET b == log[i].before
               rm == WantedRemoves(b)
           IN  /\ log[i].calls.remove <= 1
               /\ rm = {} => log[i].calls.remove = 0
               /\ (rm # {} /\ log[i].report.kind = "exit") => log[i].calls.remove = 1
               /\ log[i].calls.add = 0
               /\ log[i].calls.remove = 1 => log[i].removePayload = rm
               /\ \A k \in DOMAIN b \ rm :
                      k \in DOMAIN log[i].after /\ log[i].after[k] = b[k]
               /\ (rm = {} /\ log[i].report.kind = "exit")
                      => /\ ~log[i].report.changed
                         /\ log[i].report.tags = PyDict(b)
                         /\ log[i].after = b

C4_Witness ==
    \E i \in Runs :
        /\ state = "absent" /\ tags.given /\ ~log[i].check_mode
        /\ log[i].report.kind = "exit" /\ log[i].calls.remove = 1
        /\ \E k \in DOMAIN log[i].before \cap DOMAIN tags.map :
              /\ log[i].before[k] # str(tags.map[k])
              /\ k \in DOMAIN log[i].after
        /\ \E k \in DOMAIN log[i].before : k \notin DOMAIN log[i].after

\* C5: in Present mode add_tags gets exactly (k, str(desired[k])) for the
\* desired keys that are missing or whose actual value differs from the string
\* form of the desired one; with no such key there is no add_tags call and
\* the result is (changed = false, actual).
C5_MinimalCoercedAdd ==
    \A i \in Runs :
        (state = "present" /\ tags.given /\ ~log[i].check_mode)
        => LET b == log[i].before
               ad == WantedAdds(b)
           IN  /\ log[i].calls.add <= 1
               /\ ad = {} => log[i].calls.add = 0
               /\ (ad # {} /\ log[i].report.kind = "exit") => log[i].calls.add = 1
               /\ log[i].calls.remove = 0
               /\ log[i].calls.add = 1 =>
                      log[i].addPayload =
                          {[Key |-> k, Value |-> str(tags.map[k])] : k \in ad}
               /\ (ad = {} /\ log[i].report.kind = "exit")
                      => /\ ~log[i].report.changed
                         /\ log[i].report.tags = PyDict(b)
                         /\ log[i].after = b

C5_Witness ==
    \E i \in Runs :
        /\ state = "present" /\ tags.given /\ ~log[i].check_mode
        /\ log[i].report.kind = "exit" /\ log[i].calls.add = 1
        /\ \E k \in DOMAIN tags.map :
              /\ tags.map[k].t = "int"
              /\ [Key |-> k, Value |-> "80"] \in log[i].addPayload
        /\ \E k \in DOMAIN tags.map :
              /\ k \in DOMAIN log[i].before
              /\ \A e \in log[i].addPayload : e.Key # k

\* C6: a List run makes one describe_tags call, no add_tags and no
\* remove_tags call, leaves the ELB's tags alone and reports changed = false
\* with the fetched tags, whatever tags parameter it is given.
C6_ListNeverMutates ==
    /\ state = "list" =>
          /\ calls.add = 0 /\ calls.remove = 0 /\ calls.describe <= 1
          /\ provider = before /\ ~changed
    /\ \A i \in Runs :
          state = "list" =>
             /\ log[i].calls = [describe |-> 1, add |-> 0, remove |-> 0]
             /\ log[i].after = log[i].before
             /\ log[i].report.kind \in {"exit", "fail"}
             /\ log[i].report.kind = "exit" =>
                   /\ ~log[i].report.changed
                   /\ log[i].report.tags = PyDict(log[i].before)

C6_Witness ==
    \E i \in Runs :
        /\ state = "list" /\ tags.given /\ log[i].report.kind = "exit"
        /\ DOMAIN log[i].before # {}
        /\ \E k \in DOMAIN tags.map :
              k \notin DOMAIN log[i].before \/ log[i].before[k] # str(tags.map[k])

\* C9: a run in check mode never calls add_tags or remove_tags and leaves the
\* ELB's tags as they were, and its changed says whether a real run of the
\* same request would have changed them.
C9_DryRunNoMutation ==
    /\ check_mode => calls.add = 0 /\ calls.remove = 0 /\ provider = before
    /\ \A i \in Runs :
          log[i].check_mode =>
             /\ log[i].calls.add = 0 /\ log[i].calls.remove = 0
             /\ log[i].after = log[i].before
             /\ (Diffing /\ log[i].report.kind = "exit") =>
                   log[i].report.changed =
                       (IF state = "present"
                        THEN Overlay(log[i].before, tags.map) # log[i].before
                        ELSE Without(log[i].before, WantedRemoves(log[i].before))
                                 # log[i].before)

C9_Witness ==
    /\ Len(log) = 2 /\ Diffing
    /\ log[1].check_mode /\ log[1].report.changed /\ log[1].after = log[1].before
    /\ ~log[2].check_mode /\ log[2].report.changed /\ log[2].after # log[2].before

\* C10: a run whose describe_tags, add_tags or remove_tags call raised ends in
\* one fail_json report, with no success report and no API call after the
\* failing one.
C10_FailuresReported ==
    \A i \in Runs :
        log[i].error \in {"describe_tags", "add_tags", "remove_tags"}
        => /\ log[i].report.kind = "fail"
           /\ log[i].calls.add + log[i].calls.remove <= 1
           /\ log[i].error = "describe_tags" =>
                 log[i].calls.describe = 1 + log[i].calls.add + log[i].calls.remove
           /\ log[i].error # "describe_tags" => log[i].calls.describe = 1

(* -------------------------- boto3_wait.py ------------------------------ *)

\* client.waiter_names of the service's client
WaiterNames == {"cluster_running", "cluster_terminated"}

WaitFail(m) == [kind |-> "fail", changed |-> FALSE, msg |-> m]
WaitExit == [kind |-> "exit", changed |-> FALSE, msg |-> ""]

\* line 134: boto3.client(...); an exception is caught at line 143
CreateClient ==
    /\ wpc = "client"
    /\ \E ok \in BOOLEAN :
         IF ok
         THEN wpc' = "lookup" /\ UNCHANGED wreport
         ELSE wpc' = "done" /\ wreport' = WaitFail("client")
    /\ UNCHANGED <<until, delay, max_attempts, config, succeedsAt, rejectsAt,
                   attempts, waiterCalls, outcome>>

\* the waiter is fetched without looking the name up first
WaiterLookupUnchecked ==
    /\ wpc = "lookup"
    /\ wpc' = "configure"
    /\ waiterCalls' = [waiterCalls EXCEPT !.get_waiter = @ + 1]
    /\ config' = [delay |-> 30, max_attempts |-> DefaultMaxAttempts]
    /\ UNCHANGED <<wreport, until, delay, max_attempts, succeedsAt, rejectsAt, attempts,
                   outcome>>

\* lines 135-137: fail_json leaves the process (SystemExit is no Exception,
\* so line 143 does not catch it); otherwise get_waiter returns the waiter
\* with its own defaults
WaiterLookup ==
    /\ wpc = "lookup"
    /\ IF until \notin WaiterNames
       THEN /\ wpc' = "done"
            /\ wreport' = WaitFail("Waiter does not exist")
            /\ UNCHANGED <<waiterCalls, config>>
       ELSE /\ wpc' = "configure"
            /\ waiterCalls' = [waiterCalls EXCEPT !.get_waiter = @ + 1]
            /\ config' = [delay |-> 30, max_attempts |-> DefaultMaxAttempts]
            /\ UNCHANGED wreport
    /\ UNCHANGED <<until, delay, max_attempts, succeedsAt, rejectsAt, attempts, outcome>>

\* the max_attempts override is written to config.delay
WaiterConfigWrongField(cfg, d, m) ==
    [delay |-> IF m.given THEN m.val ELSE IF d.given THEN d.val ELSE cfg.delay,
     max_attempts |-> cfg.max_attempts]

\* lines 138-141
WaiterConfig(cfg, d, m) ==
    [delay |-> IF d.given THEN d.val ELSE cfg.delay,
     max_attempts |-> IF m.given THEN m.val ELSE cfg.max_attempts]

\* lines 138-142: the overrides, then the call of waiter.wait
Configure ==
    /\ wpc = "configure"
    /\ config' = WaiterConfig(config, delay, max_attempts)
    /\ waiterCalls' = [waiterCalls EXCEPT !.wait = @ + 1]
    /\ wpc' = "waiting"
    /\ UNCHANGED <<until, delay, max_attempts, succeedsAt, rejectsAt, attempts,
                   outcome, wreport>>

\* what AWS answers to the n-th condition check
Response(n) ==
    IF rejectsAt # 0 /\ n = rejectsAt THEN "failure"
    ELSE IF succeedsAt # 0 /\ n >= succeedsAt THEN "success"
    ELSE "retry"

\* one condition check of the waiter's loop inside waiter.wait (line 142)
WaitCheck ==
    /\ wpc = "waiting"
    /\ attempts' = attempts + 1
    /\ LET r == Response(attempts + 1)
       IN  IF r = "success" THEN outcome' = "Succeeded" /\ wpc' = "report"
           ELSE IF r = "failure" THEN outcome' = "Rejected" /\ wpc' = "report"
           ELSE IF attempts + 1 >= config.max_attempts
                THEN outcome' = "TimedOut" /\ wpc' = "report"
                ELSE UNCHANGED <<outcome, wpc>>
    /\ UNCHANGED <<until, delay, max_attempts, config, succeedsAt, rejectsAt,
                   waiterCalls, wreport>>

\* lines 143-146: a WaiterError is reported by fail_json, a return by exit_json
\* (msg is e.message, which the Python 2 exceptions of the SDK carry)
WaitReport ==
    /\ wpc = "report"
    /\ wreport' = IF outcome = "Succeeded" THEN WaitExit ELSE WaitFail(outcome)
    /\ wpc' = "done"
    /\ UNCHANGED <<until, delay, max_attempts, config, succeedsAt, rejectsAt,
                   attempts, waiterCalls, outcome>>

IdleTag ==
    /\ provider = EmptyMap
    /\ state = "list"
    /\ tags = [given |-> FALSE, map |-> EmptyMap]
    /\ check_mode = FALSE
    /\ pc = "idle"
    /\ actual_tags = PyDict(EmptyMap)
    /\ changed = FALSE
    /\ calls = NoCalls
    /\ addPayload = {}
    /\ removePayload = {}
    /\ before = EmptyMap
    /\ log = <<>>

InitWait ==
    /\ IdleTag
    /\ wpc = "client"
    /\ until \in WaiterNames \cup {"bogus"}
    /\ delay \in {NotGiven, [given |-> TRUE, val |-> 5]}
    /\ max_attempts \in {NotGiven} \cup {[given |-> TRUE, val |-> m] : m \in 1..MaxAttemptsBound}
    /\ config = [delay |-> 0, max_attempts |-> 0]
    /\ succeedsAt \in 0..(MaxAttemptsBound + 1)
    /\ rejectsAt \in 0..MaxAttemptsBound
    /\ attempts = 0
    /\ waiterCalls = NoWaiterCalls
    /\ outcome = "none"
    /\ wreport = NoWaitReport

NextWait ==
    \/ (CreateClient /\ UNCHANGED tagVars)
    \/ (WaiterLookup /\ UNCHANGED tagVars)
    \/ (Configure /\ UNCHANGED tagVars)
    \/ (WaitCheck /\ UNCHANGED tagVars)
    \/ (WaitReport /\ UNCHANGED tagVars)

SpecWait == InitWait /\ [][NextWait]_vars

(* -------------------- properties of boto3_wait.py ---------------------- *)

\* C7: with a waiter name the client does not advertise, the module ends in a
\* failure report without calling get_waiter or waiter.wait: no condition
\* check is issued and no success report is produced.
C7_UnknownWaiterFailsFast ==
    until \notin WaiterNames =>
        /\ waiterCalls = NoWaiterCalls
        /\ attempts = 0
        /\ outcome = "none"
        /\ wreport.kind # "exit"
        /\ wpc \in {"client", "lookup", "done"}
        /\ wpc = "done" => wreport.kind = "fail"

C7_Witness ==
    /\ until \notin WaiterNames
    /\ wpc = "done"
    /\ wreport = WaitFail("Waiter does not exist")

\* maxAttempts of a poll: the caller's override when given, else the default
EffectiveMax == IF max_attempts.given THEN max_attempts.val ELSE DefaultMaxAttempts
\* the check that decides a poll nothing rejects
Decisive == IF succeedsAt \in 1..EffectiveMax THEN succeedsAt ELSE EffectiveMax

\* C8: with maxAttempts = m in force from the first check on, the condition
\* is checked at most m times; a first success on check i <= m ends the poll
\* Succeeded after exactly i checks with a changed = false report, and no
\* success within m checks ends it TimedOut after exactly m checks with a
\* failure report.
C8_BoundedAttempts ==
    /\ attempts <= EffectiveMax
    /\ waiterCalls.wait = 1 => config.max_attempts = EffectiveMax
    /\ attempts > 0 => waiterCalls.wait = 1
    /\ wreport.kind = "exit" => ~wreport.changed /\ outcome = "Succeeded"
    /\ (wpc = "done" /\ waiterCalls.wait = 1 /\ (rejectsAt = 0 \/ rejectsAt > Decisive))
         => /\ attempts = Decisive
            /\ IF succeedsAt \in 1..EffectiveMax
               THEN outcome = "Succeeded" /\ wreport = WaitExit
               ELSE outcome = "TimedOut" /\ wreport = WaitFail("TimedOut")

C8_Witness ==
    /\ wpc = "done"
    /\ max_attempts.given /\ max_attempts.val > DefaultMaxAttempts
    /\ succeedsAt = max_attempts.val
    /\ attempts = succeedsAt
    /\ outcome = "Succeeded" /\ wreport = WaitExit

====
